---- MODULE Spec2Model ----
(***************************************************************************)
(* Lookup-table layer of the mail transfer agent: the static (in-memory)   *)
(* backend, the db(3) backend, their four record decoders and the static   *)
(* backend's update (hot reload).                                          *)
(*                                                                         *)
(* C strings are modelled as sequences of one-character strings (the text  *)
(* up to, and not including, the terminating NUL).                         *)
(***************************************************************************)
EXTENDS Integers, Sequences, FiniteSets, TLC

VARIABLES heap, last_table_id, db, exited, op, dkey, dline, cli

vars == <<heap, last_table_id, db, exited, op, dkey, dline, cli>>

\* the command-line matcher is not running
NoCli == [pc |-> "off"]

(***************************************************************************)
(* Bounds of the model.                                                    *)
(***************************************************************************)
\* longest raw value handed to a decoder in SpecDecode
MaxLen == 6
\* most lines of a configuration text, and most entries of a table
MaxLines == 2
\* most keys held by the db(3) store
MaxDbKeys == 2
\* table_create stops handing out ids here (caps last_table_id)
MaxTableId == 3

(***************************************************************************)
(* Program constants, scaled down so that every branch is reachable.       *)
(***************************************************************************)
\* MAX_LINE_SIZE: the smtp session line limit
MAX_LINE_SIZE == 6
\* sizeof(credentials->username)
UsernameSize == 3
\* sizeof(credentials->password)
PasswordSize == 3

\* characters of raw values: a name character, the credentials separator,
\* the list separator and a whitespace character
Alphabet == {"u", ":", ",", " "}

\* all C strings of at most n characters over Alphabet
Strings(n) == UNION {[1..k -> Alphabet] : k \in 0..n}

\* enum table_service, and one value outside the four services
Kinds == {"K_ALIAS", "K_CREDENTIALS", "K_VIRTUAL", "K_NETADDR"}
K_OTHER == "K_OTHER"
AllKinds == Kinds \cup {K_OTHER}

(***************************************************************************)
(* libc helpers                                                            *)
(***************************************************************************)
\* strchr(s, c): 1-based index of the first c in s, 0 for NULL
strchr(s, c) ==
    IF \E i \in 1..Len(s) : s[i] = c
    THEN CHOOSE i \in 1..Len(s) : s[i] = c /\ \A j \in 1..(i-1) : s[j] # c
    ELSE 0

\* isspace(c)
isspace(c) == c = " "

\* strsep(&line, ","): the token up to the first comma, the rest after it,
\* and whether line is non-NULL afterwards
strsep(line) ==
    LET i == strchr(line, ",") IN
    IF i = 0
    THEN [tok |-> line, rest |-> <<>>, more |-> FALSE]
    ELSE [tok |-> SubSeq(line, 1, i-1),
          rest |-> SubSeq(line, i+1, Len(line)),
          more |-> TRUE]

\* while (isspace(*subrcpt)) ++subrcpt;
RECURSIVE strip_initial(_)
strip_initial(s) ==
    IF s # <<>> /\ isspace(s[1]) THEN strip_initial(Tail(s)) ELSE s

\* endp = subrcpt + strlen(subrcpt) - 1;
\* while (subrcpt < endp && isspace(*endp)) *endp-- = '\0';
RECURSIVE strip_trailing(_)
strip_trailing(s) ==
    IF Len(s) > 1 /\ isspace(s[Len(s)])
    THEN strip_trailing(SubSeq(s, 1, Len(s)-1))
    ELSE s

(***************************************************************************)
(* External collaborators, known here by their contract only.              *)
(***************************************************************************)
\* alias_parse(&xn, subrcpt): the expansion-node parser. It accepts a token
\* made of name characters only and yields the node for it.
alias_parse(tok) == tok # <<>> /\ \A i \in 1..Len(tok) : tok[i] = "u"

\* expand_insert(&expand, &xn): accumulates the node, keeping token order
expand_insert(expand, xn) == Append(expand, xn)

\* text_to_netaddr(&netaddr, line): the address-text parser. It accepts a
\* non-empty text of digits and colons.
text_to_netaddr(line) ==
    line # <<>> /\ \A i \in 1..Len(line) : line[i] \in {"u", ":"}

(***************************************************************************)
(* What a decoder leaves in *retp.                                         *)
(***************************************************************************)
Untouched == [tag |-> "untouched"]
Null == [tag |-> "NULL"]
IsRecord(out) == out.tag \notin {"untouched", "NULL"}

\* the result of a decoder: its return value, *retp, and the number of
\* strsep calls it made on the raw value
DecRes(r, o, n) == [ret |-> r, out |-> o, strsep_calls |-> n]

(***************************************************************************)
(* Record decoders of the static backend (map_static.c)                 *)
(***************************************************************************)
\* table_static_credentials(key, line, len, retp)
table_static_credentials(key, line, len) ==
    IF len < 3 THEN DecRes(-1, Untouched, 0)
    ELSE IF len >= MAX_LINE_SIZE THEN DecRes(-1, Untouched, 0)
    ELSE LET p == strchr(line, ":") IN
         IF p = 0 THEN DecRes(-1, Untouched, 0)
         ELSE IF p = 1 \/ p = len THEN DecRes(-1, Untouched, 0)
         ELSE LET username == SubSeq(line, 1, p-1)
                  password == SubSeq(line, p+1, Len(line))
              IN IF Len(username) >= UsernameSize THEN DecRes(-1, Null, 0)
                 ELSE IF Len(password) >= PasswordSize THEN DecRes(-1, Null, 0)
                 ELSE DecRes(1, [tag |-> "credentials",
                                 username |-> username,
                                 password |-> password], 0)

\* the while ((subrcpt = strsep(&line, ",")) != NULL) loop of table_static_alias:
\* line is the text not yet split, expand the nodes inserted so far,
\* nbnodes their counter, calls the strsep calls made before this one
RECURSIVE table_static_alias_loop(_, _, _, _)
table_static_alias_loop(line, expand, nbnodes, calls) ==
    LET s == strsep(line)
        subrcpt == strip_initial(s.tok)
    IN IF subrcpt = <<>> THEN DecRes(-1, Null, calls + 1)
       ELSE LET xn == strip_trailing(subrcpt) IN
            IF ~alias_parse(xn) THEN DecRes(-1, Null, calls + 1)
            ELSE IF s.more
                 THEN table_static_alias_loop(s.rest, expand_insert(expand, xn),
                                nbnodes + 1, calls + 1)
                 ELSE DecRes(1, [tag |-> "alias",
                                 nodes |-> expand_insert(expand, xn),
                                 nbnodes |-> nbnodes + 1], calls + 1)

\* table_static_alias(key, line, len, retp)
table_static_alias_mutant(key, line, len) ==
    LET r == table_static_alias_loop(line, <<>>, 0, 0) IN
    IF r.ret = 1 THEN r ELSE DecRes(0, Null, r.strsep_calls)
table_static_alias(key, line, len) == table_static_alias_loop(line, <<>>, 0, 0)

\* the while ((subrcpt = strsep(&line, ",")) != NULL) loop of table_static_virtual:
\* line is the text not yet split, expand the nodes inserted so far,
\* nbnodes their counter, calls the strsep calls made before this one
RECURSIVE table_static_virtual_loop(_, _, _, _)
table_static_virtual_loop(line, expand, nbnodes, calls) ==
    LET s == strsep(line)
        subrcpt == strip_initial(s.tok)
    IN IF subrcpt = <<>> THEN DecRes(0, Null, calls + 1)
       ELSE LET xn == strip_trailing(subrcpt) IN
            IF ~alias_parse(xn) THEN DecRes(0, Null, calls + 1)
            ELSE IF s.more
                 THEN table_static_virtual_loop(s.rest, expand_insert(expand, xn),
                                nbnodes + 1, calls + 1)
                 ELSE DecRes(1, [tag |-> "virtual",
                                 nodes |-> expand_insert(expand, xn),
                                 nbnodes |-> nbnodes + 1], calls + 1)

\* table_static_virtual(key, line, len, retp)
table_static_virtual_mutant(key, line, len) ==
    table_static_virtual_loop(line, <<>>, 0, 0)
table_static_virtual(key, line, len) ==
    IF strchr(key, "@") = 0 THEN DecRes(1, Null, 0)
    ELSE table_static_virtual_loop(line, <<>>, 0, 0)

\* table_static_netaddr(key, line, len, retp)
table_static_netaddr(key, line, len) ==
    IF ~text_to_netaddr(line) THEN DecRes(0, Null, 0)
    ELSE DecRes(1, [tag |-> "netaddr", netaddr |-> line], 0)

(***************************************************************************)
(* Record decoders of the db(3) backend (table_db.c)                    *)
(***************************************************************************)
\* table_db_credentials(key, line, len, retp)
table_db_credentials(key, line, len) ==
    IF len < 3 THEN DecRes(-1, Untouched, 0)
    ELSE IF len >= MAX_LINE_SIZE THEN DecRes(-1, Untouched, 0)
    ELSE LET p == strchr(line, ":") IN
         IF p = 0 THEN DecRes(-1, Untouched, 0)
         ELSE IF p = 1 \/ p = len THEN DecRes(-1, Untouched, 0)
         ELSE LET username == SubSeq(line, 1, p-1)
                  password == SubSeq(line, p+1, Len(line))
              IN IF Len(username) >= UsernameSize THEN DecRes(-1, Null, 0)
                 ELSE IF Len(password) >= PasswordSize THEN DecRes(-1, Null, 0)
                 ELSE DecRes(1, [tag |-> "credentials",
                                 username |-> username,
                                 password |-> password], 0)

\* the while ((subrcpt = strsep(&line, ",")) != NULL) loop of table_db_alias:
\* line is the text not yet split, expand the nodes inserted so far,
\* nbnodes their counter, calls the strsep calls made before this one
RECURSIVE table_db_alias_loop(_, _, _, _)
table_db_alias_loop(line, expand, nbnodes, calls) ==
    LET s == strsep(line)
        subrcpt == strip_initial(s.tok)
    IN IF subrcpt = <<>> THEN DecRes(-1, Null, calls + 1)
       ELSE LET xn == strip_trailing(subrcpt) IN
            IF ~alias_parse(xn) THEN DecRes(-1, Null, calls + 1)
            ELSE IF s.more
                 THEN table_db_alias_loop(s.rest, expand_insert(expand, xn),
                                nbnodes + 1, calls + 1)
                 ELSE DecRes(1, [tag |-> "alias",
                                 nodes |-> expand_insert(expand, xn),
                                 nbnodes |-> nbnodes + 1], calls + 1)

\* table_db_alias(key, line, len, retp)
table_db_alias(key, line, len) == table_db_alias_loop(line, <<>>, 0, 0)

\* the while ((subrcpt = strsep(&line, ",")) != NULL) loop of table_db_virtual:
\* line is the text not yet split, expand the nodes inserted so far,
\* nbnodes their counter, calls the strsep calls made before this one
RECURSIVE table_db_virtual_loop(_, _, _, _)
table_db_virtual_loop(line, expand, nbnodes, calls) ==
    LET s == strsep(line)
        subrcpt == strip_initial(s.tok)
    IN IF subrcpt = <<>> THEN DecRes(0, Null, calls + 1)
       ELSE LET xn == strip_trailing(subrcpt) IN
            IF ~alias_parse(xn) THEN DecRes(0, Null, calls + 1)
            ELSE IF s.more
                 THEN table_db_virtual_loop(s.rest, expand_insert(expand, xn),
                                nbnodes + 1, calls + 1)
                 ELSE DecRes(1, [tag |-> "virtual",
                                 nodes |-> expand_insert(expand, xn),
                                 nbnodes |-> nbnodes + 1], calls + 1)

\* table_db_virtual(key, line, len, retp)
table_db_virtual(key, line, len) ==
    IF strchr(key, "@") = 0 THEN DecRes(1, Null, 0)
    ELSE table_db_virtual_loop(line, <<>>, 0, 0)

\* table_db_netaddr(key, line, len, retp)
table_db_netaddr(key, line, len) ==
    IF ~text_to_netaddr(line) THEN DecRes(0, Null, 0)
    ELSE DecRes(1, [tag |-> "netaddr", netaddr |-> line], 0)

(***************************************************************************)
(* Tables, the heap they live in, and configuration texts                  *)
(***************************************************************************)
\* keys of table entries: a domain key and a user-qualified key
TableKeys == {<<"b">>, <<"a", "@">>}
\* raw values of table entries: one that is well-formed as credentials and
\* as an address, one that is well-formed as an expansion list
TableVals == {<<"u", ":", "u">>, <<"u", ",", "u">>}
\* a key of MAX_LINE_SIZE characters
LongKey == [i \in 1..MAX_LINE_SIZE |-> "b"]
\* keys callers look up: the table keys, an absent one, and the long one
LookupKeys == TableKeys \cup {<<"a">>, LongKey}

\* struct mapel: me_key, me_val
Entries == [me_key : TableKeys, me_val : TableVals]
\* t_contents: the TAILQ of entries, in insertion order
Contents == UNION {[1..n -> Entries] : n \in 0..MaxLines}

\* one logical line of a configuration text: "key value", or malformed
GoodLines == [ok : {TRUE}, key : TableKeys, val : TableVals]
BadLine == [ok |-> FALSE, key |-> <<>>, val |-> <<>>]
\* a configuration: NULL, or a text of lines
NullConfig == [null |-> TRUE, lines |-> <<>>]
Configs ==
    {NullConfig} \cup
    {[null |-> FALSE, lines |-> l] :
        l \in UNION {[1..n -> GoodLines \cup {BadLine}] : n \in 0..MaxLines}}

\* addresses of the heap; the caller's table pointer is TRef throughout
NAddr == 3
Addr == 1..NAddr
TRef == 1

\* names of tables
TName == [kind |-> "configured", n |-> 0]
DynamicName(id) == [kind |-> "dynamic", n |-> id]
GarbageName == [kind |-> "garbage", n |-> 0]
\* what a read of t_name / t_id from freed memory, or of the uninitialised
\* local name[], may give
GarbageNames == {GarbageName, TName}
GarbageIds == {0, 1}

\* freed memory
Freed == [alive |-> FALSE, t_name |-> GarbageName, t_id |-> 0,
          t_contents |-> <<>>]

\* table_create(backend, NULL, config): the new table at address a, with a
\* generated name, the next id and no entries
table_create(h, a, id) ==
    [h EXCEPT ![a] = [alive |-> TRUE, t_name |-> DynamicName(id),
                      t_id |-> id, t_contents |-> <<>>]]

\* table_destroy(t): releases the entries and the table
table_destroy(h, a) == [h EXCEPT ![a] = Freed]

\* table_config_parser(table, config): one entry per line, appended in file
\* order; fails at the first malformed line
RECURSIVE table_config_parser(_, _)
table_config_parser(contents, lines) ==
    IF lines = <<>> THEN [ok |-> TRUE, contents |-> contents]
    ELSE IF ~Head(lines).ok THEN [ok |-> FALSE, contents |-> contents]
    ELSE table_config_parser(
             Append(contents, [me_key |-> Head(lines).key,
                               me_val |-> Head(lines).val]),
             Tail(lines))

\* table_static_config(table, config)
table_static_config(contents, config) ==
    IF config.null THEN [ok |-> TRUE, contents |-> contents]
    ELSE table_config_parser(contents, config.lines)

\* a ^ b on unsigned integers
RECURSIVE xor(_, _)
xor(a, b) ==
    IF a = 0 THEN b
    ELSE IF b = 0 THEN a
    ELSE (((a % 2) + (b % 2)) % 2) + (2 * xor(a \div 2, b \div 2))

\* reads and writes of a table's fields through a pointer; a read of freed
\* memory gives garbage g, a write to freed memory is lost
ReadName(h, a, g) == IF h[a].alive THEN h[a].t_name ELSE g
ReadId(h, a, g) == IF h[a].alive THEN h[a].t_id ELSE g
WriteName(h, a, v) == IF h[a].alive THEN [h EXCEPT ![a].t_name = v] ELSE h
WriteId(h, a, v) == IF h[a].alive THEN [h EXCEPT ![a].t_id = v] ELSE h

(***************************************************************************)
(* table_static_update                                                     *)
(***************************************************************************)
\* "update successful, swap table names": the three strlcpy calls through
\* the local name[]; gives the heap and what name[] then holds
swap_names(h, table, t, g) ==
    LET name == ReadName(h, table, g)
        h1 == WriteName(h, table, ReadName(h, t, g))
        h2 == WriteName(h1, t, name)
    IN [heap |-> h2, name |-> name]

\* "swap, table id": the three xor assignments
swap_ids(h, table, t, g) ==
    LET h1 == WriteId(h, table, xor(ReadId(h, table, g), ReadId(h, t, g)))
        h2 == WriteId(h1, t, xor(ReadId(h1, table, g), ReadId(h1, t, g)))
        h3 == WriteId(h2, table, xor(ReadId(h2, table, g), ReadId(h2, t, g)))
    IN h3

\* the table handed to table_destroy under "destroy former table"
update_ok_destroys(table, t) == table

\* the table handed to table_destroy under the err label
update_err_mutant(table, t) == table
update_err_destroys(table, t) == t

\* the outcome of one call: the heap, the return value, the name the log
\* line prints, the address destroyed, the transient table's address, and
\* whether the call aborted on a double free
UpdRes(h, r, n, d, t, a) ==
    [heap |-> h, ret |-> r, logname |-> n, destroyed |-> d, t |-> t,
     abort |-> a]

\* table_static_update(table, config), with t the address table_create
\* returns, id the id it assigns, uninit the content of the uninitialised
\* name[], and gname, gid what reads of freed memory give
table_static_update(h, table, config, t, id, uninit, gname, gid) ==
    IF config.null THEN UpdRes(h, 1, uninit, 0, 0, FALSE)
    ELSE LET h1 == table_create(h, t, id)
             c == table_static_config(h1[t].t_contents, config)
             h2 == [h1 EXCEPT ![t].t_contents = c.contents]
         IN IF ~c.ok
            THEN UpdRes(table_destroy(h2, update_err_destroys(table, t)),
                        0, uninit, update_err_destroys(table, t), t, FALSE)
            ELSE LET sn == swap_names(h2, table, t, gname)
                     h3 == swap_ids(sn.heap, table, t, gid)
                     d == update_ok_destroys(table, t)
                 IN IF ~h3[d].alive
                    THEN UpdRes(h3, 1, sn.name, d, t, TRUE)
                    ELSE UpdRes(table_destroy(h3, d), 1, sn.name, d, t, FALSE)

(***************************************************************************)
(* table_static_lookup, table_static_compare                               *)
(***************************************************************************)
\* the outcome of a lookup: return value, *retp, the decoder invoked and the
\* (line, len) it was given, and whether the process died in the call
LookRes(r, o, d, line, len, fatal) ==
    [ret |-> r, out |-> o, decoder |-> d, line |-> line, len |-> len,
     fatal |-> fatal]

\* TAILQ_FOREACH(me, &m->t_contents, me_entry)
\*     if (strcmp(key, me->me_key) == 0) { line = me->me_val; break; }
\* the index of me, 0 for NULL
first_match_mutant(m, key) ==
    IF \E i \in 1..Len(m) : m[i].me_key = key
    THEN CHOOSE i \in 1..Len(m) :
             m[i].me_key = key /\ \A j \in (i+1)..Len(m) : m[j].me_key # key
    ELSE 0
first_match(m, key) ==
    IF \E i \in 1..Len(m) : m[i].me_key = key
    THEN CHOOSE i \in 1..Len(m) :
             m[i].me_key = key /\ \A j \in 1..(i-1) : m[j].me_key # key
    ELSE 0

\* table_static_lookup(hdl, key, kind, retp): m is hdl's t_contents, retp
\* is whether retp is non-NULL, strdup_ok whether strdup succeeds
table_static_lookup(m, key, kind, retp, strdup_ok) ==
    LET me == first_match(m, key) IN
    IF ~retp
    THEN LookRes(IF me # 0 THEN 1 ELSE 0, Untouched, "none", <<>>, 0, FALSE)
    ELSE IF me = 0 THEN LookRes(0, Null, "none", <<>>, 0, FALSE)
    ELSE IF ~strdup_ok THEN LookRes(-1, Untouched, "none", <<>>, 0, FALSE)
    ELSE LET line == m[me].me_val
             len == Len(line)
             dec(d, r) == LookRes(r.ret, r.out, d, line, len, FALSE)
         IN CASE kind = "K_ALIAS" ->
                   dec("alias", table_static_alias(key, line, len))
              [] kind = "K_CREDENTIALS" ->
                   dec("credentials", table_static_credentials(key, line, len))
              [] kind = "K_VIRTUAL" ->
                   dec("virtual", table_static_virtual(key, line, len))
              [] kind = "K_NETADDR" ->
                   dec("netaddr", table_static_netaddr(key, line, len))
              [] OTHER -> LookRes(-1, Untouched, "none", line, len, FALSE)

\* the predicates callers hand to compare: equality of the two keys, the
\* stored key starting with the lookup key, and one that never matches
Funcs == {"equal", "prefix", "never"}
func(f, key, k) ==
    CASE f = "equal" -> key = k
      [] f = "prefix" -> Len(key) <= Len(k) /\ SubSeq(k, 1, Len(key)) = key
      [] OTHER -> FALSE

\* the outcome of a compare: return value and the stored keys func was
\* called on, in call order
CmpRes(r, e) == [ret |-> r, examined |-> e]

\* TAILQ_FOREACH(me, ...) { if (! func(key, me->me_key)) continue;
\*                          ret = 1; break; }
RECURSIVE table_static_compare_mutant(_, _, _, _, _)
table_static_compare_mutant(m, key, kind, f, examined) ==
    IF m = <<>> THEN CmpRes(0, examined)
    ELSE IF ~func(f, key, Head(m).me_key)
         THEN table_static_compare_mutant(Tail(m), key, kind, f,
                                   Append(examined, Head(m).me_key))
         ELSE LET r == table_static_compare_mutant(Tail(m), key, kind, f,
                                   Append(examined, Head(m).me_key))
              IN CmpRes(1, r.examined)
RECURSIVE table_static_compare(_, _, _, _, _)
table_static_compare(m, key, kind, f, examined) ==
    IF m = <<>> THEN CmpRes(0, examined)
    ELSE IF ~func(f, key, Head(m).me_key)
         THEN table_static_compare(Tail(m), key, kind, f,
                                   Append(examined, Head(m).me_key))
         ELSE CmpRes(1, Append(examined, Head(m).me_key))

(***************************************************************************)
(* The db(3) store and table_db_get_entry, table_db_lookup,                *)
(* table_db_compare                                                        *)
(***************************************************************************)
\* records of the store: key and data are C strings stored with their
\* terminating NUL (dbk.size = strlen(pkey) + 1), in R_FIRST/R_NEXT order
DbRecords == [key : TableKeys, val : TableVals]
DbStores ==
    {st \in UNION {[1..n -> DbRecords] : n \in 0..MaxDbKeys} :
        \A i, j \in 1..Len(st) : st[i].key = st[j].key => i = j}

\* dbv.size of a stored C string: its characters and the NUL
dbt_size(str) == Len(str) + 1

\* table_db_get_entry(hdl, key, &len)
table_db_get_entry(store, key) ==
    IF Len(key) >= MAX_LINE_SIZE
    THEN [fatal |-> TRUE, found |-> FALSE, line |-> <<>>, len |-> 0]
    ELSE IF \E i \in 1..Len(store) : store[i].key = key
    THEN LET i == CHOOSE i \in 1..Len(store) : store[i].key = key
         IN [fatal |-> FALSE, found |-> TRUE, line |-> store[i].val,
             len |-> dbt_size(store[i].val)]
    ELSE [fatal |-> FALSE, found |-> FALSE, line |-> <<>>, len |-> 0]

\* table_db_lookup(hdl, key, kind, retp); a decoder that stores through a
\* NULL retp kills the process
table_db_lookup(store, key, kind, retp) ==
    LET e == table_db_get_entry(store, key) IN
    IF e.fatal THEN LookRes(0, Untouched, "none", <<>>, 0, TRUE)
    ELSE IF ~e.found THEN LookRes(0, Untouched, "none", <<>>, 0, FALSE)
    ELSE LET line == e.line
             len == e.len
             dec(d, r) ==
                 IF ~retp /\ r.out # Untouched
                 THEN LookRes(0, Untouched, d, line, len, TRUE)
                 ELSE LookRes(r.ret, r.out, d, line, len, FALSE)
         IN CASE kind = "K_ALIAS" ->
                   dec("alias", table_db_alias(key, line, len))
              [] kind = "K_CREDENTIALS" ->
                   dec("credentials", table_db_credentials(key, line, len))
              [] kind = "K_VIRTUAL" ->
                   dec("virtual", table_db_virtual(key, line, len))
              [] kind = "K_NETADDR" ->
                   dec("netaddr", table_db_netaddr(key, line, len))
              [] OTHER -> LookRes(0, Untouched, "none", line, len, FALSE)

\* for (r = db->seq(.., R_FIRST); !r; r = db->seq(.., R_NEXT)) {
\*     if (func(key, buf)) ret = 1; free(buf); if (ret) break; }
RECURSIVE table_db_compare(_, _, _, _, _)
table_db_compare(store, key, kind, f, examined) ==
    IF store = <<>> THEN CmpRes(0, examined)
    ELSE IF func(f, key, Head(store).key)
         THEN CmpRes(1, Append(examined, Head(store).key))
         ELSE table_db_compare(Tail(store), key, kind, f,
                               Append(examined, Head(store).key))

(***************************************************************************)
(* State                                                                   *)
(*   heap           the tables, by address                                 *)
(*   last_table_id  table_create's id counter                              *)
(*   db             the db(3) store behind the persistent handle           *)
(*   exited         the process has died (errx, abort, SIGSEGV)            *)
(*   op             the call just made and its outcome, until the caller   *)
(*                  has taken it (calls are made one at a time)            *)
(*   dkey, dline    the (key, line) given to the decoders in SpecDecode    *)
(*   cli            the command-line matcher's position in parse (SpecParse)*)
(***************************************************************************)
\* what a walk of the entry list of a freed table may find: no entry, or
\* some entry
GarbageContents == {c \in Contents : Len(c) <= 1}

\* the contents a read through the table pointer sees: the table's entries,
\* or garbage when the table has been freed
Deref(h, a) == IF h[a].alive THEN {h[a].t_contents} ELSE GarbageContents

\* the table the caller holds, configured from a valid text
InitHeap(c) ==
    [a \in Addr |->
        IF a = TRef
        THEN [alive |-> TRUE, t_name |-> TName, t_id |-> 1, t_contents |-> c]
        ELSE Freed]

Init ==
    /\ \E c \in Contents : heap = InitHeap(c)
    /\ last_table_id = 1
    /\ db = <<>>
    /\ exited = FALSE
    /\ op = [name |-> "init"]
    /\ dkey = <<>>
    /\ dline = <<>>
    /\ cli = NoCli

\* no call is in progress
Idle == op.name \in {"init", "idle"}

\* the caller takes the outcome of the call it made
Return ==
    /\ ~exited
    /\ ~Idle
    /\ op' = [name |-> "idle"]
    /\ UNCHANGED <<heap, last_table_id, db, exited, dkey, dline, cli>>

\* the addresses table_create's allocation may return: the block of the
\* caller's table when it has been freed, or the first block not in use
\* (blocks not in use are alike)
Allocatable(h) ==
    {a \in Addr : ~h[a].alive /\ (a = TRef \/ \A b \in Addr \ {TRef} : ~h[b].alive => a <= b)}

\* update(T, config)
Update ==
    /\ ~exited
    /\ Idle
    /\ \E config \in Configs, uninit \in GarbageNames,
          gname \in (IF heap[TRef].alive THEN {GarbageName} ELSE GarbageNames),
          gid \in (IF heap[TRef].alive THEN {0} ELSE GarbageIds) :
       \E t \in Allocatable(heap) :
          /\ config.null \/ last_table_id < MaxTableId
          /\ LET id == last_table_id + 1
                 r == table_static_update(heap, TRef, config, t, id,
                                          uninit, gname, gid)
             IN /\ heap' = r.heap
                /\ last_table_id' = IF config.null THEN last_table_id ELSE id
                /\ exited' = r.abort
                /\ op' = [name |-> "update", config |-> config,
                          ret |-> r.ret, logname |-> r.logname,
                          destroyed |-> r.destroyed, t |-> r.t,
                          abort |-> r.abort, preheap |-> heap]
    /\ UNCHANGED <<db, dkey, dline, cli>>

\* lookup(T, key, kind, retp) on the static table
StaticLookup ==
    /\ ~exited
    /\ Idle
    /\ \E key \in LookupKeys, kind \in AllKinds, retp \in BOOLEAN,
          strdup_ok \in BOOLEAN :
       \E m \in Deref(heap, TRef) :
          op' = [name |-> "lookup", backend |-> "static", key |-> key,
                 kind |-> kind, retp |-> retp, strdup_ok |-> strdup_ok,
                 res |-> table_static_lookup(m, key, kind, retp, strdup_ok)]
    /\ UNCHANGED <<heap, last_table_id, db, exited, dkey, dline, cli>>

\* compare(T, key, kind, func) on the static table
StaticCompare ==
    /\ ~exited
    /\ Idle
    /\ \E key \in LookupKeys, kind \in AllKinds, f \in Funcs :
       \E m \in Deref(heap, TRef) :
          op' = [name |-> "compare", backend |-> "static", key |-> key,
                 kind |-> kind, func |-> f,
                 res |-> table_static_compare(m, key, kind, f, <<>>)]
    /\ UNCHANGED <<heap, last_table_id, db, exited, dkey, dline, cli>>

\* a call through the pointer to a freed table faults
DanglingFault ==
    /\ ~exited
    /\ Idle
    /\ ~heap[TRef].alive
    /\ exited' = TRUE
    /\ op' = [name |-> "fault"]
    /\ UNCHANGED <<heap, last_table_id, db, dkey, dline, cli>>

Next == Update \/ StaticLookup \/ StaticCompare \/ DanglingFault \/ Return

Spec == Init /\ [][Next]_vars

(***************************************************************************)
(* Both backends side by side: a static table and a db(3) handle           *)
(***************************************************************************)
InitBackends ==
    /\ \E c \in Contents : heap = InitHeap(c)
    /\ last_table_id = 1
    /\ db \in DbStores
    /\ exited = FALSE
    /\ op = [name |-> "init"]
    /\ dkey = <<>>
    /\ dline = <<>>
    /\ cli = NoCli

\* lookup(hdl, key, kind, retp) on the db(3) handle
DbLookup ==
    /\ ~exited
    /\ Idle
    /\ \E key \in LookupKeys, kind \in AllKinds, retp \in BOOLEAN :
       LET r == table_db_lookup(db, key, kind, retp) IN
          /\ op' = [name |-> "lookup", backend |-> "db", key |-> key,
                    kind |-> kind, retp |-> retp, strdup_ok |-> TRUE,
                    res |-> r]
          /\ exited' = r.fatal
    /\ UNCHANGED <<heap, last_table_id, db, dkey, dline, cli>>

\* compare(hdl, key, kind, func) on the db(3) handle
DbCompare ==
    /\ ~exited
    /\ Idle
    /\ \E key \in LookupKeys, kind \in AllKinds, f \in Funcs :
          op' = [name |-> "compare", backend |-> "db", key |-> key,
                 kind |-> kind, func |-> f,
                 res |-> table_db_compare(db, key, kind, f, <<>>)]
    /\ UNCHANGED <<heap, last_table_id, db, exited, dkey, dline, cli>>

NextBackends ==
    StaticLookup \/ StaticCompare \/ DbLookup \/ DbCompare \/ Return

SpecBackends == InitBackends /\ [][NextBackends]_vars

(***************************************************************************)
(* The decoders alone, on every raw value of at most MaxLen characters     *)
(***************************************************************************)
\* a domain key and a user-qualified key
DecodeKeys == {<<"b">>, <<"a", "@">>}

InitDecode ==
    /\ heap = InitHeap(<<>>)
    /\ last_table_id = 1
    /\ db = <<>>
    /\ exited = FALSE
    /\ op = [name |-> "init"]
    /\ dkey \in DecodeKeys
    /\ dline \in Strings(MaxLen)
    /\ cli = NoCli

\* table_static_credentials applied to (dkey, dline); table_static_lookup passes len = strlen(line)
DecodeStaticCredentials ==
    /\ op' = [name |-> "decode", fn |-> "table_static_credentials", key |-> dkey,
              line |-> dline, len |-> Len(dline),
              res |-> table_static_credentials(dkey, dline, Len(dline))]
    /\ UNCHANGED <<heap, last_table_id, db, exited, dkey, dline, cli>>

\* table_static_alias applied to (dkey, dline); table_static_lookup passes len = strlen(line)
DecodeStaticAlias ==
    /\ op' = [name |-> "decode", fn |-> "table_static_alias", key |-> dkey,
              line |-> dline, len |-> Len(dline),
              res |-> table_static_alias(dkey, dline, Len(dline))]
    /\ UNCHANGED <<heap, last_table_id, db, exited, dkey, dline, cli>>

\* table_static_virtual applied to (dkey, dline); table_static_lookup passes len = strlen(line)
DecodeStaticVirtual ==
    /\ op' = [name |-> "decode", fn |-> "table_static_virtual", key |-> dkey,
              line |-> dline, len |-> Len(dline),
              res |-> table_static_virtual(dkey, dline, Len(dline))]
    /\ UNCHANGED <<heap, last_table_id, db, exited, dkey, dline, cli>>

\* table_static_netaddr applied to (dkey, dline); table_static_lookup passes len = strlen(line)
DecodeStaticNetaddr ==
    /\ op' = [name |-> "decode", fn |-> "table_static_netaddr", key |-> dkey,
              line |-> dline, len |-> Len(dline),
              res |-> table_static_netaddr(dkey, dline, Len(dline))]
    /\ UNCHANGED <<heap, last_table_id, db, exited, dkey, dline, cli>>

\* table_db_credentials applied to (dkey, dline); table_db_lookup passes len = dbv.size
DecodeDbCredentials ==
    /\ op' = [name |-> "decode", fn |-> "table_db_credentials", key |-> dkey,
              line |-> dline, len |-> dbt_size(dline),
              res |-> table_db_credentials(dkey, dline, dbt_size(dline))]
    /\ UNCHANGED <<heap, last_table_id, db, exited, dkey, dline, cli>>

\* table_db_alias applied to (dkey, dline); table_db_lookup passes len = dbv.size
DecodeDbAlias ==
    /\ op' = [name |-> "decode", fn |-> "table_db_alias", key |-> dkey,
              line |-> dline, len |-> dbt_size(dline),
              res |-> table_db_alias(dkey, dline, dbt_size(dline))]
    /\ UNCHANGED <<heap, last_table_id, db, exited, dkey, dline, cli>>

\* table_db_virtual applied to (dkey, dline); table_db_lookup passes len = dbv.size
DecodeDbVirtual ==
    /\ op' = [name |-> "decode", fn |-> "table_db_virtual", key |-> dkey,
              line |-> dline, len |-> dbt_size(dline),
              res |-> table_db_virtual(dkey, dline, dbt_size(dline))]
    /\ UNCHANGED <<heap, last_table_id, db, exited, dkey, dline, cli>>

\* table_db_netaddr applied to (dkey, dline); table_db_lookup passes len = dbv.size
DecodeDbNetaddr ==
    /\ op' = [name |-> "decode", fn |-> "table_db_netaddr", key |-> dkey,
              line |-> dline, len |-> dbt_size(dline),
              res |-> table_db_netaddr(dkey, dline, dbt_size(dline))]
    /\ UNCHANGED <<heap, last_table_id, db, exited, dkey, dline, cli>>

NextDecode ==
    \/ DecodeStaticCredentials
    \/ DecodeStaticAlias
    \/ DecodeStaticVirtual
    \/ DecodeStaticNetaddr
    \/ DecodeDbCredentials
    \/ DecodeDbAlias
    \/ DecodeDbVirtual
    \/ DecodeDbNetaddr

SpecDecode == InitDecode /\ [][NextDecode]_vars

(***************************************************************************)
(* The command-line matcher (parser.c): token tables walked by parse, one  *)
(* match_token call per argument.                                          *)
(*                                                                         *)
(* A token is {type, keyword, value, next}: value is the action the token  *)
(* sets ("NONE" is the zero action, which `if (t->value)` skips), next the *)
(* name of the table the walk continues in ("NULL" for none).  A table is  *)
(* the sequence of its tokens, the closing ENDTOKEN included.              *)
(***************************************************************************)
Tok(type, keyword, value, next) ==
    [type |-> type, keyword |-> keyword, value |-> value, next |-> next]

ENDTOKEN == Tok("ENDTOKEN", <<>>, "NONE", "NULL")

t_main ==
    <<Tok("KEYWORD", <<"s", "c", "h", "e", "d", "u", "l", "e", "-", "i", "d">>, "NONE", "t_schedule_id"),
      Tok("KEYWORD", <<"s", "c", "h", "e", "d", "u", "l", "e", "-", "a", "l", "l">>, "SCHEDULE_ALL", "NULL"),
      Tok("KEYWORD", <<"s", "h", "o", "w">>, "NONE", "t_show"),
      Tok("KEYWORD", <<"m", "o", "n", "i", "t", "o", "r">>, "MONITOR", "NULL"),
      Tok("KEYWORD", <<"p", "a", "u", "s", "e">>, "NONE", "t_pause"),
      Tok("KEYWORD", <<"r", "e", "m", "o", "v", "e">>, "NONE", "t_remove"),
      Tok("KEYWORD", <<"r", "e", "s", "u", "m", "e">>, "NONE", "t_resume"),
      Tok("KEYWORD", <<"s", "t", "o", "p">>, "SHUTDOWN", "NULL"),
      Tok("KEYWORD", <<"l", "o", "g">>, "NONE", "t_log"),
      Tok("KEYWORD", <<"u", "p", "d", "a", "t", "e">>, "NONE", "t_update"),
      ENDTOKEN>>

t_remove ==
    <<Tok("VARIABLE", <<"e", "v", "p", "i", "d">>, "REMOVE", "NULL"),
      ENDTOKEN>>

t_schedule_id ==
    <<Tok("VARIABLE", <<"m", "s", "g", "i", "d", "/", "e", "v", "p", "i", "d">>, "SCHEDULE", "NULL"),
      ENDTOKEN>>

t_show ==
    <<Tok("KEYWORD", <<"q", "u", "e", "u", "e">>, "SHOW_QUEUE", "NULL"),
      Tok("KEYWORD", <<"s", "t", "a", "t", "s">>, "SHOW_STATS", "NULL"),
      Tok("KEYWORD", <<"e", "n", "v", "e", "l", "o", "p", "e">>, "NONE", "t_show_envelope"),
      Tok("KEYWORD", <<"m", "e", "s", "s", "a", "g", "e">>, "SHOW_MESSAGE", "t_show_message"),
      ENDTOKEN>>

t_show_envelope ==
    <<Tok("VARIABLE", <<"e", "v", "p", "i", "d">>, "SHOW_ENVELOPE", "NULL"),
      ENDTOKEN>>

t_show_message ==
    <<Tok("VARIABLE", <<"e", "v", "p", "i", "d">>, "SHOW_MESSAGE", "NULL"),
      ENDTOKEN>>

t_pause ==
    <<Tok("KEYWORD", <<"m", "d", "a">>, "PAUSE_MDA", "NULL"),
      Tok("KEYWORD", <<"m", "t", "a">>, "PAUSE_MTA", "NULL"),
      Tok("KEYWORD", <<"s", "m", "t", "p">>, "PAUSE_SMTP", "NULL"),
      ENDTOKEN>>

t_resume ==
    <<Tok("KEYWORD", <<"m", "d", "a">>, "RESUME_MDA", "NULL"),
      Tok("KEYWORD", <<"m", "t", "a">>, "RESUME_MTA", "NULL"),
      Tok("KEYWORD", <<"s", "m", "t", "p">>, "RESUME_SMTP", "NULL"),
      ENDTOKEN>>

t_log ==
    <<Tok("KEYWORD", <<"v", "e", "r", "b", "o", "s", "e">>, "LOG_VERBOSE", "NULL"),
      Tok("KEYWORD", <<"b", "r", "i", "e", "f">>, "LOG_BRIEF", "NULL"),
      ENDTOKEN>>

t_update ==
    <<Tok("KEYWORD", <<"t", "a", "b", "l", "e">>, "NONE", "t_update_table"),
      ENDTOKEN>>

t_update_table ==
    <<Tok("VARIABLE", <<"n", "a", "m", "e">>, "UPDATE_TABLE", "NULL"),
      ENDTOKEN>>

\* the table a token's next pointer names
TokenTable(name) ==
    CASE name = "t_main" -> t_main
      [] name = "t_remove" -> t_remove
      [] name = "t_schedule_id" -> t_schedule_id
      [] name = "t_show" -> t_show
      [] name = "t_show_envelope" -> t_show_envelope
      [] name = "t_show_message" -> t_show_message
      [] name = "t_pause" -> t_pause
      [] name = "t_resume" -> t_resume
      [] name = "t_log" -> t_log
      [] name = "t_update" -> t_update
      [] name = "t_update_table" -> t_update_table

TableNames == {"t_main", "t_remove", "t_schedule_id", "t_show", "t_show_envelope", "t_show_message", "t_pause", "t_resume", "t_log", "t_update", "t_update_table"}

\* most arguments on a command line
MaxArgs == 3

\* a char * argument: the null pointer (argv[argc]), or a string
NullWord == [null |-> TRUE, s |-> <<>>]
Word(s) == [null |-> FALSE, s |-> s]

strlen(word) == Len(word.s)

\* the first n characters of a string in memory, its NUL included
strn(str, n) ==
    LET m == str \o <<"NUL">>
    IN SubSeq(m, 1, IF n < Len(m) THEN n ELSE Len(m))

\* strncmp(s1, s2, n) == 0
strncmp_eq(s1, s2, n) == strn(s1, n) = strn(s2, n)

\* struct parse_result after bzero
ZeroResult == [action |-> "NONE", data |-> NullWord]

\* the for loop of match_token from table[i] on: match counts the tokens
\* that matched, t is the index of the last one (0: none), res is written
\* by every token that matches and has a value
RECURSIVE match_token_loop(_, _, _, _, _, _)
match_token_loop(word, table, i, match, t, res) ==
    IF table[i].type = "ENDTOKEN" THEN [match |-> match, t |-> t, res |-> res]
    ELSE LET tk == table[i]
             hit == CASE tk.type = "NOTOKEN" ->
                            word.null \/ strlen(word) = 0
                      [] tk.type = "KEYWORD" ->
                            /\ ~word.null
                            /\ strncmp_eq(word.s, tk.keyword, strlen(word))
                      [] tk.type = "VARIABLE" ->
                            ~word.null /\ strlen(word) # 0
             res1 == IF ~hit \/ tk.value = "NONE" THEN res
                     ELSE CASE tk.type = "KEYWORD" ->
                                 [res EXCEPT !.action = tk.value]
                            [] tk.type = "VARIABLE" ->
                                 [action |-> tk.value, data |-> word]
                            [] tk.type = "NOTOKEN" -> res
         IN match_token_loop(word, table, i + 1,
                             IF hit THEN match + 1 ELSE match,
                             IF hit THEN i ELSE t, res1)

\* match_token(word, table, &res): t is the index in table of the one token
\* that matched, 0 for a NULL return; res is *res after the call
match_token(word, table, res) ==
    LET r == match_token_loop(word, table, 1, 0, 0, res)
    IN [t |-> IF r.match # 1 THEN 0 ELSE r.t, match |-> r.match, res |-> r.res]

\* the keywords of a table
Keywords(table) ==
    {table[i].keyword : i \in {j \in 1..Len(table) : table[j].type = "KEYWORD"}}

AllKeywords == UNION {Keywords(TokenTable(n)) : n \in TableNames}

\* the words tried as arguments: every abbreviation of every keyword (the
\* empty word and the full keyword included), a word that no keyword starts
\* with, and a keyword with a character too many
Words ==
    UNION {{SubSeq(k, 1, n) : n \in 0..Len(k)} : k \in AllKeywords}
        \cup {<<"x">>, <<"s", "t", "o", "p", "s">>}

\* cli while no parse call has been made:
\*   pc     "idle", "loop" (at the head of the while loop) or "done"
\*   argc   parse's argc, argc0 its value at the call
\*   argv   the arguments handed to match_token so far, in order
\*   table  the name of the current table
\*   res    the static parse_result
\*   ret    what parse returned: "NULL" or "res" ("pending" before)
IdleCli ==
    [pc |-> "idle", argc |-> 0, argc0 |-> 0, argv |-> <<>>,
     table |-> "t_main", res |-> ZeroResult, ret |-> "pending"]

InitParse ==
    /\ heap = InitHeap(<<>>)
    /\ last_table_id = 1
    /\ db = <<>>
    /\ exited = FALSE
    /\ op = [name |-> "init"]
    /\ dkey = <<>>
    /\ dline = <<>>
    /\ cli = IdleCli

\* parse(argc, argv) is called: res is zeroed, the walk starts at t_main
ParseCall ==
    /\ cli.pc = "idle"
    /\ \E argc \in 0..MaxArgs :
          cli' = [IdleCli EXCEPT !.pc = "loop", !.argc = argc, !.argc0 = argc]
    /\ UNCHANGED <<heap, last_table_id, db, exited, op, dkey, dline>>

\* one turn of parse's while loop, and what follows the loop when it is left:
\* argv[0] is the next argument, or the null pointer that ends argv
ParseStep ==
    /\ cli.pc = "loop"
    /\ cli.argc >= 0
    /\ \E word \in (IF cli.argc = 0 THEN {NullWord}
                    ELSE {Word(s) : s \in Words}) :
          LET table == TokenTable(cli.table)
              m == match_token(word, table, cli.res)
              argv1 == IF word.null THEN cli.argv ELSE Append(cli.argv, word.s)
              argc1 == cli.argc - 1
          IN IF m.t = 0
             THEN cli' = [cli EXCEPT !.pc = "done", !.ret = "NULL",
                                     !.argv = argv1, !.res = m.res]
             ELSE IF \/ table[m.t].type = "NOTOKEN"
                     \/ table[m.t].next = "NULL"
                     \/ argc1 < 0
                  THEN cli' = [cli EXCEPT !.pc = "done", !.argc = argc1,
                                          !.argv = argv1, !.res = m.res,
                                          !.ret = IF argc1 > 0 THEN "NULL"
                                                  ELSE "res"]
                  ELSE cli' = [cli EXCEPT !.argc = argc1, !.argv = argv1,
                                          !.res = m.res,
                                          !.table = table[m.t].next]
    /\ UNCHANGED <<heap, last_table_id, db, exited, op, dkey, dline>>

NextParse == ParseCall \/ ParseStep

SpecParse == InitParse /\ [][NextParse]_vars

(***************************************************************************)
(* Properties                                                              *)
(***************************************************************************)
Min(S) == CHOOSE i \in S : \A j \in S : i <= j

\* the update just made was given a text, ran to its end, and T was a live
\* table when it was called
UpdateCalled ==
    /\ op.name = "update"
    /\ ~op.config.null
    /\ ~op.abort
    /\ op.preheap[TRef].alive

\* the text has a malformed line
HasBadLine(config) == \E i \in 1..Len(config.lines) : ~config.lines[i].ok

\* the entries a text defines, in file order
ConfigEntries(config) ==
    [i \in 1..Len(config.lines) |->
        [me_key |-> config.lines[i].key, me_val |-> config.lines[i].val]]

\* every lookup and compare a reader of T can make gives on contents m what
\* it gives on contents n
SameAnswers(m, n) ==
    /\ \A key \in LookupKeys, kind \in AllKinds, retp \in BOOLEAN :
          table_static_lookup(m, key, kind, retp, TRUE)
              = table_static_lookup(n, key, kind, retp, TRUE)
    /\ \A key \in LookupKeys, kind \in AllKinds, f \in Funcs :
          table_static_compare(m, key, kind, f, <<>>)
              = table_static_compare(n, key, kind, f, <<>>)

\* C1: after update(T, C) returns success for a valid text C, T is a live
\* table with the name and id it had before the call, and every lookup on T
\* answers from the entries of C only.
C1_UpdateServesNewContent ==
    (UpdateCalled /\ ~HasBadLine(op.config)) =>
        /\ op.ret = 1
        /\ heap[TRef].alive
        /\ heap[TRef].t_name = op.preheap[TRef].t_name
        /\ heap[TRef].t_id = op.preheap[TRef].t_id
        /\ \A m \in Deref(heap, TRef) :
              SameAnswers(m, ConfigEntries(op.config))

\* C2: when update(T, C) fails because C has a malformed line, it returns
\* failure, T keeps its name, id and entry list, so every lookup and compare
\* on T answers as before, and the transient table is the only table
\* destroyed.
C2_FailedUpdateLeavesTable ==
    (UpdateCalled /\ HasBadLine(op.config)) =>
        /\ op.ret = 0
        /\ heap[TRef] = op.preheap[TRef]
        /\ SameAnswers(heap[TRef].t_contents, op.preheap[TRef].t_contents)
        /\ op.destroyed = op.t
        /\ op.t # TRef
        /\ ~op.preheap[op.t].alive
        /\ \A a \in Addr : heap[a] = op.preheap[a]

\* a failed update of a table that holds entries
C2_Witness ==
    /\ UpdateCalled
    /\ HasBadLine(op.config)
    /\ op.ret = 0
    /\ Len(op.config.lines) > 1
    /\ op.config.lines[1].ok
    /\ heap[TRef].t_contents # <<>>

\* C3: a successful update destroys the transient table built from C, never
\* the table the caller passed in, which is alive when update returns.
C3_TransientIsDestroyed ==
    (UpdateCalled /\ op.ret = 1) =>
        /\ op.destroyed = op.t
        /\ op.destroyed # TRef
        /\ heap[TRef].alive

(***************************************************************************)
(* What the record formats are, stated without the decoders                *)
(***************************************************************************)
\* positions of the commas of a raw value, and its comma-separated tokens
Commas(line) == {i \in 1..Len(line) : line[i] = ","}
Tokens(line) ==
    LET cut(k) ==
            IF k = 0 THEN 0
            ELSE IF k > Cardinality(Commas(line)) THEN Len(line) + 1
            ELSE CHOOSE i \in Commas(line) :
                     Cardinality({j \in Commas(line) : j <= i}) = k
    IN [k \in 1..(Cardinality(Commas(line)) + 1) |->
           SubSeq(line, cut(k-1) + 1, cut(k) - 1)]

\* a token without its leading and trailing whitespace
Trim(tok) ==
    LET ink == {i \in 1..Len(tok) : tok[i] # " "} IN
    IF ink = {} THEN <<>>
    ELSE SubSeq(tok, Min(ink), CHOOSE i \in ink : \A j \in ink : j <= i)

\* the trimmed tokens of a raw value
TrimmedTokens(line) == [k \in 1..Len(Tokens(line)) |-> Trim(Tokens(line)[k])]

\* every token is non-empty after trimming and accepted by the node parser
ListWellFormed(line) ==
    \A k \in 1..Len(Tokens(line)) :
        TrimmedTokens(line)[k] # <<>> /\ alias_parse(TrimmedTokens(line)[k])

\* the position of the first colon of a raw value, 0 when it has none
FirstColon(line) ==
    IF \E i \in 1..Len(line) : line[i] = ":"
    THEN Min({i \in 1..Len(line) : line[i] = ":"})
    ELSE 0

\* "user:password": 3 <= length < the line limit, a first colon that is
\* neither the first nor the last character, both halves fitting their field
CredWellFormed(line) ==
    /\ 3 <= Len(line)
    /\ Len(line) < MAX_LINE_SIZE
    /\ FirstColon(line) > 1
    /\ FirstColon(line) < Len(line)
    /\ FirstColon(line) - 1 < UsernameSize
    /\ Len(line) - FirstColon(line) < PasswordSize

HasAt(key) == \E i \in 1..Len(key) : key[i] = "@"

\* the raw value is malformed for the requested kind
Malformed(kind, key, val) ==
    CASE kind = "K_CREDENTIALS" -> ~CredWellFormed(val)
      [] kind = "K_ALIAS" -> ~ListWellFormed(val)
      [] kind = "K_VIRTUAL" -> HasAt(key) /\ ~ListWellFormed(val)
      [] kind = "K_NETADDR" -> ~text_to_netaddr(val)
      [] OTHER -> FALSE

\* the entries the backend of the lookup or compare in op holds, as
\* (key, raw value) pairs in storage order
Stored ==
    IF op.backend = "static"
    THEN [i \in 1..Len(heap[TRef].t_contents) |->
             [key |-> heap[TRef].t_contents[i].me_key,
              val |-> heap[TRef].t_contents[i].me_val]]
    ELSE db
StoredAt(key) == {i \in 1..Len(Stored) : Stored[i].key = key}

\* a lookup that was given somewhere to store the record and ran to its end
LookupDone ==
    /\ op.name = "lookup"
    /\ op.retp
    /\ op.strdup_ok
    /\ ~op.res.fatal
    /\ heap[TRef].alive

\* C4: for the four kinds and both backends a lookup signals absence, a
\* decode error and success by three different return values, and hands
\* back a record on success only.
C4_ThreeOutcomesDistinct ==
    (LookupDone /\ op.kind \in Kinds) =>
        /\ StoredAt(op.key) = {} => op.res.ret = 0
        /\ StoredAt(op.key) # {} =>
              LET val == Stored[Min(StoredAt(op.key))].val IN
              /\ Malformed(op.kind, op.key, val) => op.res.ret \notin {0, 1}
              /\ ~Malformed(op.kind, op.key, val) => op.res.ret = 1
        /\ op.res.ret # 1 => ~IsRecord(op.res.out)

\* C5: a static lookup decodes the raw value of the first entry, in
\* insertion order, whose key equals the lookup key, whatever entries follow
\* it; with no such entry it returns "not found", stores no record and
\* invokes no decoder.
C5_FirstMatchingEntry ==
    (op.name = "lookup" /\ op.backend = "static" /\ heap[TRef].alive) =>
        LET m == heap[TRef].t_contents
            hits == StoredAt(op.key)
        IN IF hits = {}
           THEN /\ op.res.ret = 0
                /\ op.res.decoder = "none"
                /\ op.retp => op.res.out = Null
                /\ ~IsRecord(op.res.out)
           ELSE /\ op.res = table_static_lookup(SubSeq(m, 1, Min(hits)), op.key,
                                                op.kind, op.retp, op.strdup_ok)
                /\ (op.retp /\ op.strdup_ok) =>
                      /\ op.res.line = m[Min(hits)].me_val
                      /\ op.res.len = Len(m[Min(hits)].me_val)
                /\ (op.retp /\ op.strdup_ok /\ op.kind \in Kinds) =>
                      op.res.decoder # "none"
                /\ ~op.retp => op.res.ret = 1

\* a lookup of a key held by two entries with different raw values
C5_Witness ==
    /\ op.name = "lookup"
    /\ op.backend = "static"
    /\ heap[TRef].alive
    /\ op.retp
    /\ op.strdup_ok
    /\ op.kind = "K_CREDENTIALS"
    /\ Cardinality(StoredAt(op.key)) = 2
    /\ Stored[1].val # Stored[2].val
    /\ op.res.line = Stored[1].val
    /\ op.res.ret = 1

\* C6: compare returns true iff func holds of (key, k) for some stored key
\* k; it calls func on the stored keys in storage order up to and including
\* the first match (on all of them when none matches); the kind does not
\* matter.
C6_CompareFirstMatch ==
    (op.name = "compare" /\ heap[TRef].alive) =>
        LET hits == {i \in 1..Len(Stored) : func(op.func, op.key, Stored[i].key)}
            n == IF hits = {} THEN Len(Stored) ELSE Min(hits)
        IN /\ op.res.ret \in {0, 1}
           /\ op.res.ret = 1 <=> hits # {}
           /\ op.res.examined = [i \in 1..n |-> Stored[i].key]
           /\ \A kind \in AllKinds :
                 op.res = IF op.backend = "static"
                          THEN table_static_compare(heap[TRef].t_contents,
                                                    op.key, kind, op.func, <<>>)
                          ELSE table_db_compare(db, op.key, kind, op.func, <<>>)

\* a static compare that stops at the first of two stored keys
C6_Witness ==
    /\ op.name = "compare"
    /\ op.backend = "static"
    /\ heap[TRef].alive
    /\ Len(Stored) = 2
    /\ op.res.ret = 1
    /\ Len(op.res.examined) = 1

\* the same on the db(3) handle, where the match is the second key
C6_WitnessDb ==
    /\ op.name = "compare"
    /\ op.backend = "db"
    /\ Len(Stored) = 2
    /\ op.res.ret = 1
    /\ Len(op.res.examined) = 2

\* C7: credentials decoding of a raw value succeeds iff the value is
\* well-formed "user:password" (3 <= length < the line limit, a first colon
\* that is neither its first nor its last character, halves that fit); then
\* username is the text before the first colon and password all the text
\* after it, both non-empty; otherwise the result is the decode error and no
\* record.
C7_CredentialsDecode ==
    (op.name = "decode"
        /\ op.fn \in {"table_static_credentials", "table_db_credentials"}) =>
        IF CredWellFormed(op.line)
        THEN /\ op.res.ret = 1
             /\ op.res.out.tag = "credentials"
             /\ op.res.out.username = SubSeq(op.line, 1, FirstColon(op.line) - 1)
             /\ op.res.out.password
                    = SubSeq(op.line, FirstColon(op.line) + 1, Len(op.line))
             /\ op.res.out.username # <<>>
             /\ op.res.out.password # <<>>
        ELSE /\ op.res.ret = -1
             /\ ~IsRecord(op.res.out)

\* C8: alias decoding succeeds iff every comma-separated token is non-empty
\* after trimming and accepted by the node parser; then it returns the
\* trimmed tokens' nodes in token order, counted, at least one; otherwise it
\* fails with the decode error and returns no record.
C8_AliasAllOrNothing ==
    (op.name = "decode"
        /\ op.fn \in {"table_static_alias", "table_db_alias"}) =>
        IF ListWellFormed(op.line)
        THEN /\ op.res.ret = 1
             /\ op.res.out.tag = "alias"
             /\ op.res.out.nodes = TrimmedTokens(op.line)
             /\ op.res.out.nbnodes = Len(Tokens(op.line))
             /\ op.res.out.nbnodes >= 1
        ELSE /\ op.res.ret = -1
             /\ op.res.out = Null

\* three tokens, with whitespace to trim, decoded to three nodes
C8_Witness ==
    /\ op.name = "decode"
    /\ op.fn = "table_static_alias"
    /\ op.res.ret = 1
    /\ op.res.out.nbnodes = 3
    /\ \E i \in 1..Len(op.line) : op.line[i] = " "

\* an empty token after a good one fails the whole decode
C8_WitnessFail ==
    /\ op.name = "decode"
    /\ op.fn = "table_db_alias"
    /\ op.res.ret = -1
    /\ op.res.strsep_calls = 2
    /\ op.res.out = Null

\* what the alias decoder of the same backend gives for the decode in op
AliasOfSame ==
    IF op.fn = "table_static_virtual"
    THEN table_static_alias(op.key, op.line, op.len)
    ELSE table_db_alias(op.key, op.line, op.len)

\* C9: virtual decoding of a key without '@' succeeds with no record for
\* every raw value and never tokenises it; for a key with '@' it succeeds
\* exactly when alias decoding of the raw value does, then with a record of
\* the same nodes and count, and without a record when it does not.
C9_VirtualDecode ==
    (op.name = "decode"
        /\ op.fn \in {"table_static_virtual", "table_db_virtual"}) =>
        IF ~HasAt(op.key)
        THEN /\ op.res.ret = 1
             /\ op.res.out = Null
             /\ op.res.strsep_calls = 0
        ELSE /\ op.res.ret = 1 <=> AliasOfSame.ret = 1
             /\ op.res.ret = 1 =>
                   /\ IsRecord(op.res.out)
                   /\ op.res.out.nodes = AliasOfSame.out.nodes
                   /\ op.res.out.nbnodes = AliasOfSame.out.nbnodes
             /\ op.res.ret # 1 =>
                   /\ ~IsRecord(op.res.out)
                   /\ ~IsRecord(AliasOfSame.out)

\* a domain key with a raw value that is malformed as an expansion list
C9_Witness ==
    /\ op.name = "decode"
    /\ op.fn = "table_static_virtual"
    /\ ~HasAt(op.key)
    /\ ~ListWellFormed(op.line)
    /\ op.res.ret = 1

\* a user-qualified key decoded to two nodes
C9_WitnessUser ==
    /\ op.name = "decode"
    /\ op.fn = "table_db_virtual"
    /\ HasAt(op.key)
    /\ op.res.ret = 1
    /\ op.res.out.nbnodes = 2

\* the static table and the db(3) store hold the same mapping of unique keys
SameMapping ==
    LET m == heap[TRef].t_contents IN
    /\ heap[TRef].alive
    /\ \A i, j \in 1..Len(m) : m[i].me_key = m[j].me_key => i = j
    /\ {<<m[i].me_key, m[i].me_val>> : i \in 1..Len(m)}
           = {<<db[i].key, db[i].val>> : i \in 1..Len(db)}

\* the record a lookup handed back, "none" for no record
Handed(out) == IF IsRecord(out) THEN out ELSE Null

\* C10: when both backends hold the same mapping, a lookup of any key under
\* any kind value gives the same return value and the same record (or none)
\* on the static table as on the db(3) handle.
C10_BackendsInterchangeable ==
    (op.name = "lookup" /\ op.retp /\ op.strdup_ok /\ SameMapping
        /\ Len(op.key) < MAX_LINE_SIZE) =>
        LET s == table_static_lookup(heap[TRef].t_contents, op.key, op.kind,
                                     TRUE, TRUE)
            d == table_db_lookup(db, op.key, op.kind, TRUE)
        IN /\ op.res = IF op.backend = "static" THEN s ELSE d
           /\ s.ret = d.ret
           /\ Handed(s.out) = Handed(d.out)

\* the update just made ran to its end and wrote its log line, and T was a
\* live table when it was called (the text may be absent)
UpdateLogged ==
    /\ op.name = "update"
    /\ ~op.abort
    /\ op.preheap[TRef].alive

\* C11: every log line that update writes, on the failure path, on the
\* success path after the swap and on the early success path of an absent
\* configuration, prints the name the table had at the moment of the call,
\* never the content of a local buffer that was not assigned.
C11_LogNamesTheTable ==
    UpdateLogged => op.logname = op.preheap[TRef].t_name

\* word w is the beginning of keyword k
IsPrefix(w, k) == Len(w) <= Len(k) /\ SubSeq(k, 1, Len(w)) = w

\* the tokens of a table that an argument matches: a keyword the argument
\* abbreviates, or the variable token; an empty word matches none
Matching(w, table) ==
    {i \in 1..Len(table) :
        /\ w # <<>>
        /\ \/ table[i].type = "KEYWORD" /\ IsPrefix(w, table[i].keyword)
           \/ table[i].type = "VARIABLE"}

\* args, walked from the named table, is one complete command: each argument
\* matches exactly one token of the current table, the last one a token with
\* no successor table, and none is left over
RECURSIVE CompleteCommand(_, _)
CompleteCommand(args, name) ==
    /\ args # <<>>
    /\ LET table == TokenTable(name)
           M == Matching(Head(args), table)
       IN /\ Cardinality(M) = 1
          /\ LET t == table[CHOOSE i \in M : TRUE]
             IN IF t.next = "NULL" THEN Len(args) = 1
                ELSE CompleteCommand(Tail(args), t.next)

\* parse has returned
ParseDone == cli.pc = "done"

\* C12: parse(argc, argv) returns a result exactly when the whole argument
\* list is one complete command (every argument in turn matches exactly one
\* token of the current table, the walk ends on a token without a successor
\* table, no argument remains; an ambiguous abbreviation, an empty or unknown
\* word, a missing or a superfluous argument give no result); the returned
\* action is then never NONE and, for a variable token, the data is that
\* argument; and every turn of the loop consumes one argument, so parse
\* returns after at most argc + 1 turns.
C12_ParseAcceptsCompleteCommands ==
    /\ cli.pc = "loop" =>
          /\ cli.argc \in 0..cli.argc0
          /\ Len(cli.argv) = cli.argc0 - cli.argc
    /\ ParseDone =>
          /\ cli.ret = "res" <=>
                /\ Len(cli.argv) = cli.argc0
                /\ CompleteCommand(cli.argv, "t_main")
          /\ cli.ret = "res" =>
                /\ cli.res.action # "NONE"
                /\ LET table == TokenTable(cli.table)
                   IN table[1].type = "VARIABLE" =>
                         cli.res.data = Word(cli.argv[Len(cli.argv)])

====
